---- MODULE Spec2Model ----
(***************************************************************************)
(* A model of the scraping orchestrator of products-web-scraping:          *)
(* ScrapingOrchestrator.execute_scraping runs a LangGraph state graph      *)
(* (coordinator -> site scraper nodes -> results_aggregator -> END) over   *)
(* a shared ScrapingState, and wraps the final state in a ScrapingResult.  *)
(* SpecPrice follows single calls of the scrapers' _extract_price,         *)
(* SpecExtract single calls of their extract_product_info, and SpecFetch   *)
(* single calls of their scrape, one step of a fetch method at a time.     *)
(***************************************************************************)
EXTENDS Integers, Sequences, FiniteSets, TLC

VARIABLES
    pc,               \* position of execute_scraping / current graph node
    request,          \* the caller's ScrapingRequest object (mutated in place)
    products,         \* state["products"]
    errors,           \* state["errors"]
    completed_sites,  \* state["completed_sites"]
    result,           \* the ScrapingResult handed back to the caller
    exc,              \* the exception that escaped graph.invoke ("" when none)
    orig_sites,       \* history: target_sites as the caller supplied them
    trace,            \* history: graph nodes entered, in order
    failed_fetch,     \* history: the site of the stage that ran last, when every
                      \* fetch attempt of its scrape failed ("" otherwise)
    appended,         \* history: products in the order the stages appended them
    added,            \* history: number of add_product calls on the result
    phase,            \* position of a single call of a scraper method
    site_in,          \* the site whose scraper is called
    price_text,       \* _extract_price: the price text passed in
    price_out,        \* _extract_price: the value returned
    price_again,      \* _extract_price: the value returned for str(price_out)
    page,             \* extract_product_info: the containers of the document
    max_in,           \* max_results of the call
    extracted,        \* extract_product_info: the records returned
    returned,         \* the records the fetch method hands back
    driver,           \* fetch method: its local `driver` is bound to a session
    browsers,         \* browser sessions started and not quit
    attempts,         \* history: the fetch attempts of a call of scrape, in order
    all_products,     \* SamsungScraper.scrape: its local all_products
    handed            \* what scrape handed to its caller

\* the variables of a run of execute_scraping
runVars == <<pc, request, products, errors, completed_sites, result, exc,
             orig_sites, trace, failed_fetch, appended, added>>

\* the variables of a single call of an extractor or of a price normalizer
callVars == <<phase, site_in, price_text, price_out, price_again, page,
              max_in, extracted, returned>>

\* the variables of a single call of a scraper's scrape, besides phase,
\* site_in, max_in and returned
fetchVars == <<driver, browsers, attempts, all_products, handed>>

vars == <<pc, request, products, errors, completed_sites, result, exc,
          orig_sites, trace, failed_fetch, appended, added, phase, site_in,
          price_text, price_out, price_again, page, max_in, extracted,
          returned, driver, browsers, attempts, all_products, handed>>

----------------------------------------------------------------------------
(* Bounds of the model *)

\* longest requested site list
MaxSites == 2

\* most products one fetched document holds
MaxPage == 2

\* most add_product calls a caller makes on a returned result
MaxAdd == 1

\* most containers one document holds
MaxContainers == 2

\* longest price text handed to a price normalizer
MaxText == 5

\* prices the extractors read (every extractor skips a container whose price
\* is missing or not positive)
Prices == {1, 2}

\* values of max_results_per_site the requests carry
MaxResultsChoices == {1}

\* identifiers a caller may put into target_sites
Identifiers ==
    {"amazon", "mercadolivre", "magazine_luiza", "americanas", "casas_bahia",
     "pontofrio", "carrefour", "samsung", "lg", "all", "ALL", "Amazon", "foo",
     "ponto_frio"}

----------------------------------------------------------------------------
(* Helpers *)

Range(s) == {s[i] : i \in 1..Len(s)}

\* Python slice s[:n]
Take(s, n) == IF n >= Len(s) THEN s ELSE SubSeq(s, 1, n)

\* str.lower() on the identifiers of the model
Lower(s) ==
    CASE s = "ALL" -> "all"
      [] s = "Amazon" -> "amazon"
      [] OTHER -> s

\* ProductInfo.price default (None)
NoPrice == -1

\* a ProductInfo record: the site that produced it and its price
ProductInfo(site, price) == [site |-> site, price |-> price]

----------------------------------------------------------------------------
(* The graph: nodes, conditional-edge tables and the routing functions *)

\* self.scrapers: the registered scrapers, by key
scrapers ==
    {"amazon", "mercadolivre", "americanas", "magazine_luiza", "casas_bahia",
     "pontofrio", "carrefour", "samsung", "lg"}

\* the scraper key each site node of the graph uses
StageSite ==
    [amazon_scraper |-> "amazon", mercadolivre_scraper |-> "mercadolivre",
     americanas_scraper |-> "americanas",
     magazine_luiza_scraper |-> "magazine_luiza",
     casas_bahia_scraper |-> "casas_bahia", pontofrio_scraper |-> "pontofrio",
     carrefour_scraper |-> "carrefour", samsung_scraper |-> "samsung",
     lg_scraper |-> "lg"]

SiteNodes == DOMAIN StageSite

\* a single path map shared by every node (no per-node restriction)
EdgesShared(node) ==
    [amazon |-> "amazon_scraper", mercadolivre |-> "mercadolivre_scraper",
     magazine_luiza |-> "magazine_luiza_scraper",
     americanas |-> "americanas_scraper",
     casas_bahia |-> "casas_bahia_scraper", pontofrio |-> "pontofrio_scraper",
     carrefour |-> "carrefour_scraper", samsung |-> "samsung_scraper",
     lg |-> "lg_scraper", multiple |-> "amazon_scraper",
     end |-> "results_aggregator", done |-> "results_aggregator"]

\* add_conditional_edges: the path map of each node (routing key -> node)
Edges(node) ==
    CASE node = "coordinator" ->
           [amazon |-> "amazon_scraper", mercadolivre |-> "mercadolivre_scraper",
            magazine_luiza |-> "magazine_luiza_scraper",
            americanas |-> "americanas_scraper",
            casas_bahia |-> "casas_bahia_scraper",
            pontofrio |-> "pontofrio_scraper",
            carrefour |-> "carrefour_scraper", samsung |-> "samsung_scraper",
            lg |-> "lg_scraper", multiple |-> "amazon_scraper",
            end |-> "results_aggregator"]
      [] node = "amazon_scraper" ->
           [mercadolivre |-> "mercadolivre_scraper",
            carrefour |-> "carrefour_scraper",
            magazine_luiza |-> "magazine_luiza_scraper",
            americanas |-> "americanas_scraper",
            casas_bahia |-> "casas_bahia_scraper",
            pontofrio |-> "pontofrio_scraper", samsung |-> "samsung_scraper",
            done |-> "results_aggregator"]
      [] node = "mercadolivre_scraper" ->
           [carrefour |-> "carrefour_scraper",
            magazine_luiza |-> "magazine_luiza_scraper",
            americanas |-> "americanas_scraper",
            casas_bahia |-> "casas_bahia_scraper",
            pontofrio |-> "pontofrio_scraper", samsung |-> "samsung_scraper",
            done |-> "results_aggregator"]
      [] node = "carrefour_scraper" ->
           [magazine_luiza |-> "magazine_luiza_scraper",
            americanas |-> "americanas_scraper",
            casas_bahia |-> "casas_bahia_scraper",
            pontofrio |-> "pontofrio_scraper", samsung |-> "samsung_scraper",
            done |-> "results_aggregator"]
      [] node = "magazine_luiza_scraper" ->
           [americanas |-> "americanas_scraper",
            casas_bahia |-> "casas_bahia_scraper",
            pontofrio |-> "pontofrio_scraper", samsung |-> "samsung_scraper",
            done |-> "results_aggregator"]
      [] node = "americanas_scraper" ->
           [casas_bahia |-> "casas_bahia_scraper",
            pontofrio |-> "pontofrio_scraper", samsung |-> "samsung_scraper",
            done |-> "results_aggregator"]
      [] node = "casas_bahia_scraper" ->
           [pontofrio |-> "pontofrio_scraper", samsung |-> "samsung_scraper",
            done |-> "results_aggregator"]
      [] node = "pontofrio_scraper" ->
           [samsung |-> "samsung_scraper", done |-> "results_aggregator"]
      [] node = "samsung_scraper" -> [done |-> "results_aggregator"]
      [] node = "lg_scraper" -> [done |-> "results_aggregator"]

\* the node a routing key leads to from `node`; "KeyError" when the path map
\* of the node has no such key (the lookup raises inside graph.invoke)
Route(node, key) ==
    IF key \in DOMAIN Edges(node) THEN Edges(node)[key] ELSE "KeyError"

\* any(site in names for site in target_sites)
HasAny(target_sites, names) ==
    \E i \in 1..Len(target_sites) : target_sites[i] \in names

BoolInt(b) == IF b THEN 1 ELSE 0

\* _decide_scrapers answering with the first requested site
DecideFirstRequested(target_sites) ==
    IF target_sites = <<>> THEN "end" ELSE target_sites[1]

\* ScrapingOrchestrator._decide_scrapers
DecideScrapers(target_sites) ==
    LET has_amazon == HasAny(target_sites, {"amazon", "all"})
        has_mercadolivre ==
            HasAny(target_sites, {"mercadolivre", "mercado livre", "all"})
        has_magazine_luiza ==
            HasAny(target_sites,
                   {"magazine_luiza", "magazineluiza", "magazine luiza", "all"})
        has_americanas == HasAny(target_sites, {"americanas"})
        has_casas_bahia ==
            HasAny(target_sites, {"casas_bahia", "casasbahia", "casas bahia"})
        has_pontofrio == HasAny(target_sites, {"pontofrio", "ponto frio"})
        has_carrefour == HasAny(target_sites, {"carrefour", "all"})
        has_samsung == HasAny(target_sites, {"samsung"})
        site_count ==
            BoolInt(has_amazon) + BoolInt(has_mercadolivre)
            + BoolInt(has_magazine_luiza) + BoolInt(has_americanas)
            + BoolInt(has_casas_bahia) + BoolInt(has_pontofrio)
            + BoolInt(has_carrefour) + BoolInt(has_samsung)
    IN  IF target_sites = <<>> THEN "end"
        ELSE IF site_count > 1 THEN "multiple"
        ELSE IF has_amazon THEN "amazon"
        ELSE IF has_mercadolivre THEN "mercadolivre"
        ELSE IF has_magazine_luiza THEN "magazine_luiza"
        ELSE IF has_americanas THEN "americanas"
        ELSE IF has_casas_bahia THEN "casas_bahia"
        ELSE IF has_pontofrio THEN "pontofrio"
        ELSE IF has_carrefour THEN "carrefour"
        ELSE IF has_samsung THEN "samsung"
        ELSE "end"

\* _check_remaining_scrapers as its docstring lists the order (mercadolivre,
\* carrefour, magazine_luiza, americanas, casas_bahia, pontofrio): without the
\* samsung check
CheckRemainingWithoutSamsung(target_sites, completed) ==
    LET has_mercadolivre ==
            HasAny(target_sites, {"mercadolivre", "mercado livre", "all"})
        has_magazine_luiza ==
            HasAny(target_sites,
                   {"magazine_luiza", "magazineluiza", "magazine luiza", "all"})
        has_americanas == HasAny(target_sites, {"americanas"})
        has_casas_bahia ==
            HasAny(target_sites, {"casas_bahia", "casasbahia", "casas bahia"})
        has_pontofrio == HasAny(target_sites, {"pontofrio", "ponto frio"})
        has_carrefour == HasAny(target_sites, {"carrefour", "all"})
        done_sites == Range(completed)
    IN  IF has_mercadolivre /\ "mercadolivre" \notin done_sites
        THEN "mercadolivre"
        ELSE IF has_carrefour /\ "carrefour" \notin done_sites THEN "carrefour"
        ELSE IF has_magazine_luiza /\ "magazine_luiza" \notin done_sites
        THEN "magazine_luiza"
        ELSE IF has_americanas /\ "americanas" \notin done_sites
        THEN "americanas"
        ELSE IF has_casas_bahia /\ "casas_bahia" \notin done_sites
        THEN "casas_bahia"
        ELSE IF has_pontofrio /\ "pontofrio" \notin done_sites THEN "pontofrio"
        ELSE "done"

\* ScrapingOrchestrator._check_remaining_scrapers
CheckRemainingScrapers(target_sites, completed) ==
    LET has_mercadolivre ==
            HasAny(target_sites, {"mercadolivre", "mercado livre", "all"})
        has_magazine_luiza ==
            HasAny(target_sites,
                   {"magazine_luiza", "magazineluiza", "magazine luiza", "all"})
        has_americanas == HasAny(target_sites, {"americanas"})
        has_casas_bahia ==
            HasAny(target_sites, {"casas_bahia", "casasbahia", "casas bahia"})
        has_pontofrio == HasAny(target_sites, {"pontofrio", "ponto frio"})
        has_carrefour == HasAny(target_sites, {"carrefour", "all"})
        has_samsung == HasAny(target_sites, {"samsung"})
        done_sites == Range(completed)
    IN  IF has_mercadolivre /\ "mercadolivre" \notin done_sites
        THEN "mercadolivre"
        ELSE IF has_carrefour /\ "carrefour" \notin done_sites THEN "carrefour"
        ELSE IF has_magazine_luiza /\ "magazine_luiza" \notin done_sites
        THEN "magazine_luiza"
        ELSE IF has_americanas /\ "americanas" \notin done_sites
        THEN "americanas"
        ELSE IF has_casas_bahia /\ "casas_bahia" \notin done_sites
        THEN "casas_bahia"
        ELSE IF has_pontofrio /\ "pontofrio" \notin done_sites THEN "pontofrio"
        ELSE IF has_samsung /\ "samsung" \notin done_sites THEN "samsung"
        ELSE "done"

----------------------------------------------------------------------------
(* The coordinator *)

\* the sites the "all" sentinel expands to in the coordinator
AllSites ==
    <<"amazon", "mercadolivre", "magazine_luiza", "americanas", "casas_bahia">>

\* supported_sites of the coordinator
supported_sites ==
    {"amazon", "mercadolivre", "magazine_luiza", "americanas", "casas_bahia",
     "pontofrio", "carrefour", "samsung"}

\* error strings, by the template that formats them and the name they carry:
\*   "Site não suportado: {site}"       -> kind "unsupported"
\*   "Erro no scraping da/do <Site>: e" -> kind "scraping"
\*   "Erro na orquestração: {e}"        -> kind "orchestration"
ErrorEntry(kind, name) == [kind |-> kind, name |-> name]

\* the "all" expansion at the top of the coordinator
ExpandAll(target_sites) ==
    IF "all" \in Range(target_sites) THEN AllSites ELSE target_sites

\* available_sites: the lower-cased supported identifiers, in request order
AvailableSites(target_sites) ==
    SelectSeq([i \in 1..Len(target_sites) |-> Lower(target_sites[i])],
              LAMBDA s : s \in supported_sites)

\* the error entries the validation loop appends, in request order
UnsupportedErrors(target_sites) ==
    LET bad == SelectSeq(target_sites, LAMBDA s : Lower(s) \notin supported_sites)
    IN  [i \in 1..Len(bad) |-> ErrorEntry("unsupported", bad[i])]

\* the sites the "all" sentinel expands to in the command line (main)
MainAllSites == <<"amazon", "mercadolivre", "carrefour", "magazine_luiza">>

\* the site identifiers the command line help lists as supported
MainDocumentedSites ==
    {"amazon", "mercadolivre", "magazine_luiza", "carrefour", "samsung", "lg",
     "casas_bahia", "ponto_frio"}

\* target_sites as main builds it from the sites arguments: lower-cased, or
\* the four general sites as soon as one argument is "all" in any case
MainTargetSites(sites) ==
    IF \E i \in 1..Len(sites) : Lower(sites[i]) = "all"
    THEN MainAllSites
    ELSE [i \in 1..Len(sites) |-> Lower(sites[i])]

----------------------------------------------------------------------------
(* The scrapers, as the site stages see them *)

\* what one fetch attempt (a rendered or a static fetch of one URL) ends in:
\* a failure, or a document from which extract_product_info reads `items`
SeleniumFailures == {"timeout", "webdriver_error"}
RequestsFailures == {"request_error"}

Extractions == UNION {[1..n -> Prices] : n \in 0..MaxPage}

Attempt(fail, items) == [fail |-> fail, items |-> items]

SeleniumAttempts ==
    {Attempt(f, <<>>) : f \in SeleniumFailures}
    \cup {Attempt("none", x) : x \in Extractions}

RequestsAttempts ==
    {Attempt(f, <<>>) : f \in RequestsFailures}
    \cup {Attempt("none", x) : x \in Extractions}

\* the records an extractor builds from the items of a document
Records(site, items) == [i \in 1..Len(items) |-> ProductInfo(site, items[i])]

\* what scraper.scrape hands to the stage: it raised, or it returned products;
\* failed: every fetch attempt it made failed
Outcome(didRaise, prods, failed) ==
    [raised |-> didRaise, products |-> prods, failed |-> failed]

\* scrape_with_selenium handing back every record the extractor read
ScrapeWithSeleniumUncut(site, a, max_results) ==
    IF a.fail # "none" THEN <<>> ELSE Records(site, a.items)

\* BaseScraper.scrape_with_selenium: a failure is caught and gives []
ScrapeWithSelenium(site, a, max_results) ==
    IF a.fail # "none" THEN <<>> ELSE Take(Records(site, a.items), max_results)

\* BaseScraper.scrape_with_requests: a failure is caught and gives []
ScrapeWithRequests(site, a, max_results) ==
    IF a.fail # "none" THEN <<>> ELSE Take(Records(site, a.items), max_results)

\* BaseScraper.scrape letting a failed fetch escape to its caller
BaseScrapePropagating(site, plan, max_results) ==
    LET viaSelenium == ScrapeWithSelenium(site, plan[1], max_results)
    IN  IF plan[1].fail # "none" THEN Outcome(TRUE, <<>>, TRUE)
        ELSE IF viaSelenium # <<>> THEN Outcome(FALSE, viaSelenium, FALSE)
        ELSE IF plan[2].fail # "none" THEN Outcome(TRUE, <<>>, TRUE)
        ELSE Outcome(FALSE, ScrapeWithRequests(site, plan[2], max_results), FALSE)

\* BaseScraper.scrape: Selenium first, requests when Selenium gave nothing
BaseScrape(site, plan, max_results) ==
    LET viaSelenium == ScrapeWithSelenium(site, plan[1], max_results)
    IN  IF viaSelenium # <<>>
        THEN Outcome(FALSE, viaSelenium, FALSE)
        ELSE Outcome(FALSE, ScrapeWithRequests(site, plan[2], max_results),
                     plan[1].fail # "none" /\ plan[2].fail # "none")

\* CarrefourScraper.scrape: scrape_with_selenium_wait (untruncated), then the
\* requests fallback, then products[:max_results]
CarrefourScrape(site, plan, max_results) ==
    LET viaSelenium ==
            IF plan[1].fail # "none" THEN <<>> ELSE Records(site, plan[1].items)
    IN  IF viaSelenium # <<>>
        THEN Outcome(FALSE, Take(viaSelenium, max_results), FALSE)
        ELSE Outcome(FALSE,
                     Take(ScrapeWithRequests(site, plan[2], max_results),
                          max_results),
                     plan[1].fail # "none" /\ plan[2].fail # "none")

\* the candidate URLs SamsungScraper._build_multiple_search_urls lists
NumSamsungUrls == 5

RECURSIVE SamsungFirstHit(_, _, _)
\* the for loop of SamsungScraper.scrape from URL i on: the products of the
\* first URL whose rendered fetch yields any
SamsungFirstHit(site, plan, i) ==
    IF i > Len(plan) THEN <<>>
    ELSE LET found ==
                 IF plan[i].fail # "none" THEN <<>>
                 ELSE Records(site, plan[i].items)
         IN  IF found # <<>> THEN found ELSE SamsungFirstHit(site, plan, i + 1)

\* SamsungScraper.scrape
SamsungScrape(site, plan, max_results) ==
    Outcome(FALSE, Take(SamsungFirstHit(site, plan, 1), max_results),
            \A i \in 1..Len(plan) : plan[i].fail # "none")

\* LGScraper.scrape: no search is made
LGScrape(site, plan, max_results) == Outcome(FALSE, <<>>, FALSE)

\* scraper.scrape(product_name, max_results) of self.scrapers[site]
Scrape(site, plan, max_results) ==
    CASE site = "carrefour" -> CarrefourScrape(site, plan, max_results)
      [] site = "samsung" -> SamsungScrape(site, plan, max_results)
      [] site = "lg" -> LGScrape(site, plan, max_results)
      [] OTHER -> BaseScrape(site, plan, max_results)

\* the fetch attempts one call of scrape may make, by site: a rendered and a
\* static attempt, or for Samsung one rendered attempt per candidate URL (all
\* URLs but one failing or empty)
FetchPlans(site) ==
    IF site = "samsung"
    THEN {[j \in 1..NumSamsungUrls |-> IF j = i THEN a ELSE b] :
            i \in 1..NumSamsungUrls, a \in SeleniumAttempts,
            b \in {Attempt("timeout", <<>>), Attempt("none", <<>>)}}
    ELSE {<<a, b>> : a \in SeleniumAttempts, b \in RequestsAttempts}

----------------------------------------------------------------------------
(* The aggregator's sort *)

\* the sort key  p.price or float("inf"), as a pair compared lexicographically
PriceKey(p) ==
    IF p.price = NoPrice \/ p.price = 0 THEN <<1, 0>> ELSE <<0, p.price>>

KeyLessEq(k1, k2) == k1[1] < k2[1] \/ (k1[1] = k2[1] /\ k1[2] <= k2[2])

RECURSIVE InsertAfterEqual(_, _)
\* p put into the sorted sequence s behind every element whose key is <= its own
InsertAfterEqual(p, s) ==
    IF s = <<>> THEN <<p>>
    ELSE IF KeyLessEq(PriceKey(s[1]), PriceKey(p))
         THEN <<s[1]>> \o InsertAfterEqual(p, Tail(s))
         ELSE <<p>> \o s

RECURSIVE InsertBeforeEqual(_, _)
\* p put into the sorted sequence s in front of every element whose key is >= its own
InsertBeforeEqual(p, s) ==
    IF s = <<>> THEN <<p>>
    ELSE IF KeyLessEq(PriceKey(p), PriceKey(s[1]))
         THEN <<p>> \o s
         ELSE <<s[1]>> \o InsertBeforeEqual(p, Tail(s))

RECURSIVE SortFrom(_, _)
SortFrom(s, acc) ==
    IF s = <<>> THEN acc ELSE SortFrom(Tail(s), InsertAfterEqual(s[1], acc))

RECURSIVE SortUnstableFrom(_, _)
SortUnstableFrom(s, acc) ==
    IF s = <<>> THEN acc
    ELSE SortUnstableFrom(Tail(s), InsertBeforeEqual(s[1], acc))

\* a sort by price that puts equal prices in reverse order
SortByPriceUnstable(s) == SortUnstableFrom(s, <<>>)

\* the accumulated list left as it is
SortSkipped(s) == s

RECURSIVE DropRepeatedKeys(_)
DropRepeatedKeys(s) ==
    IF Len(s) <= 1 THEN s
    ELSE IF PriceKey(s[1]) = PriceKey(s[2]) THEN DropRepeatedKeys(Tail(s))
    ELSE <<s[1]>> \o DropRepeatedKeys(Tail(s))

\* a sort by price that keeps one product per price
SortByPriceOnePerKey(s) == DropRepeatedKeys(SortFrom(s, <<>>))

\* list.sort(key=lambda p: p.price or float("inf")): stable, ascending
SortByPrice(s) == SortFrom(s, <<>>)

----------------------------------------------------------------------------
(* ScrapingResult *)

\* no ScrapingRequest
NoRequest == [target_sites |-> <<>>, max_results_per_site |-> 0]

\* a ScrapingResult with its field defaults (and no request yet)
EmptyResult ==
    [request |-> NoRequest, products |-> <<>>, errors |-> <<>>,
     total_found |-> 0]

\* the result execute_scraping builds from the final state of the graph
FinalResult(req, prods, errs) ==
    [request |-> req, products |-> prods, errors |-> errs,
     total_found |-> Len(prods)]

\* a result of the except branch that keeps what the state had accumulated
FailureResultKeepingState(req, prods, errs, e) ==
    [request |-> req, products |-> prods,
     errors |-> Append(errs, ErrorEntry("orchestration", e)),
     total_found |-> Len(prods)]

\* the result execute_scraping builds in its except branch
FailureResult(req, prods, errs, e) ==
    [request |-> req, products |-> <<>>,
     errors |-> <<ErrorEntry("orchestration", e)>>,
     total_found |-> 0]

\* add_product appending without refreshing the count
AddProductStaleCount(r, p) == [r EXCEPT !.products = Append(r.products, p)]

\* ScrapingResult.add_product
AddProductTo(r, p) ==
    LET appendedList == Append(r.products, p)
    IN  [r EXCEPT !.products = appendedList, !.total_found = Len(appendedList)]

\* the product a caller adds to a result it was handed
ExtraProduct == ProductInfo("manual", NoPrice)

----------------------------------------------------------------------------
(* Price texts, float values and the sites' price normalizers *)

\* the characters of the decimal digits, by value
DigitChars == <<"0", "1", "2", "3", "4", "5", "6", "7", "8", "9">>

IsDigit(c) == \E d \in 1..10 : DigitChars[d] = c

DigitValue(c) == (CHOOSE d \in 1..10 : DigitChars[d] = c) - 1

RECURSIVE Pow10(_)
Pow10(n) == IF n = 0 THEN 1 ELSE 10 * Pow10(n - 1)

RECURSIVE Decimal(_, _)
\* the float m / 10^s, written with the least s
Decimal(m, s) ==
    IF s > 0 /\ m % 10 = 0 THEN Decimal(m \div 10, s - 1)
    ELSE [m |-> m, s |-> s]

\* Python None where a float is expected
None == [m |-> NoPrice, s |-> 0]

\* truth value of an Optional[float] (`if price`, `if not price`)
Truthy(v) == v # None /\ v.m # 0

\* a < b on floats: by whole part, then by fraction at a common scale
Less(a, b) ==
    LET wholeA == a.m \div Pow10(a.s)
        wholeB == b.m \div Pow10(b.s)
        scale == IF a.s > b.s THEN a.s ELSE b.s
        fractionA == (a.m % Pow10(a.s)) * Pow10(scale - a.s)
        fractionB == (b.m % Pow10(b.s)) * Pow10(scale - b.s)
    IN  IF wholeA # wholeB THEN wholeA < wholeB ELSE fractionA < fractionB

RECURSIVE DigitsValue(_)
\* the integer a string of digits denotes ("" as 0)
DigitsValue(s) ==
    IF s = <<>> THEN 0
    ELSE 10 * DigitsValue(SubSeq(s, 1, Len(s) - 1)) + DigitValue(s[Len(s)])

\* float(s) on a string of digits, commas and periods; ValueError as None
Float(s) ==
    LET dots == {i \in 1..Len(s) : s[i] = "."}
    IN  IF \/ \E i \in 1..Len(s) : ~IsDigit(s[i]) /\ s[i] # "."
           \/ Cardinality(dots) > 1
           \/ ~\E i \in 1..Len(s) : IsDigit(s[i])
        THEN None
        ELSE IF dots = {} THEN Decimal(DigitsValue(s), 0)
        ELSE LET k == CHOOSE i \in dots : TRUE
             IN  Decimal(DigitsValue(SubSeq(s, 1, k - 1)
                                     \o SubSeq(s, k + 1, Len(s))),
                         Len(s) - k)

\* re.sub(r"[^\d,.]", "", text)
Cleaned(text) == SelectSeq(text, LAMBDA c : IsDigit(c) \/ c \in {",", "."})

\* c in s
Contains(s, c) == \E i \in 1..Len(s) : s[i] = c

\* s.replace(c, "")
Remove(s, c) == SelectSeq(s, LAMBDA x : x # c)

\* s.replace(c, d)
Replace(s, c, d) == [i \in 1..Len(s) |-> IF s[i] = c THEN d ELSE s[i]]

\* s.rfind(c), counted from 1 (0 when absent)
RFind(s, c) ==
    IF Contains(s, c)
    THEN CHOOSE i \in 1..Len(s) :
             s[i] = c /\ \A j \in (i + 1)..Len(s) : s[j] # c
    ELSE 0

\* cleaned.split(".") has two parts and the second is longer than 2
OnePeriodThenMoreThanTwo(s) ==
    /\ Cardinality({i \in 1..Len(s) : s[i] = "."}) = 1
    /\ Len(s) - RFind(s, ".") > 2

\* the comma handling every normalizer shares: with both separators the
\* periods go and the commas become periods; lone commas become periods
CommaAsDecimal(cleaned) ==
    IF Contains(cleaned, ",") /\ Contains(cleaned, ".")
    THEN Replace(Remove(cleaned, "."), ",", ".")
    ELSE IF Contains(cleaned, ",") THEN Replace(cleaned, ",", ".")
    ELSE cleaned

\* AmazonBRScraper._extract_price (MercadoLivreScraper._extract_price is the
\* same text)
AmazonExtractPrice(price_text_in) ==
    IF price_text_in = <<>> THEN None
    ELSE LET cleaned == Cleaned(price_text_in)
         IN  IF Contains(cleaned, ",")
             THEN Float(CommaAsDecimal(cleaned))
             ELSE IF Contains(cleaned, ".") /\ OnePeriodThenMoreThanTwo(cleaned)
             THEN Float(Remove(cleaned, "."))
             ELSE Float(cleaned)

\* MagazineLuizaScraper._extract_price (the Carrefour, Samsung and LG methods
\* are the same text): a lone period is always the decimal point
MagazineLuizaExtractPrice(price_text_in) ==
    IF price_text_in = <<>> THEN None
    ELSE Float(CommaAsDecimal(Cleaned(price_text_in)))

\* the ceiling of PontoFrioScraper._extract_price
PontoFrioCeiling == 1000000

\* PontoFrioScraper._extract_price
PontoFrioExtractPrice(price_text_in) ==
    IF price_text_in = <<>> THEN None
    ELSE LET price_clean == Cleaned(price_text_in)
             fixed ==
                 IF Contains(price_clean, ",") /\ Contains(price_clean, ".")
                 THEN IF RFind(price_clean, ".") < RFind(price_clean, ",")
                      THEN Replace(Remove(price_clean, "."), ",", ".")
                      ELSE Remove(price_clean, ",")
                 ELSE IF Contains(price_clean, ",")
                 THEN Replace(price_clean, ",", ".")
                 ELSE price_clean
             price == Float(fixed)
         IN  IF price_clean = <<>> THEN None
             ELSE IF price # None /\ price.m > 0
                     /\ Less(price, Decimal(PontoFrioCeiling, 0))
             THEN price
             ELSE None

\* the sites whose scraper defines _extract_price
PriceSites ==
    {"amazon", "mercadolivre", "magazine_luiza", "carrefour", "pontofrio",
     "samsung", "lg"}

\* self._extract_price(text) of the scraper of `site`
ExtractPrice(site, text) ==
    CASE site \in {"amazon", "mercadolivre"} -> AmazonExtractPrice(text)
      [] site = "pontofrio" -> PontoFrioExtractPrice(text)
      [] OTHER -> MagazineLuizaExtractPrice(text)

RECURSIVE NatDigits(_)
\* str(n) of a natural number
NatDigits(n) ==
    IF n < 10 THEN <<DigitChars[n + 1]>>
    ELSE Append(NatDigits(n \div 10), DigitChars[(n % 10) + 1])

\* s.rjust(n, "0")
ZeroPad(s, n) ==
    IF Len(s) >= n THEN s ELSE [i \in 1..(n - Len(s)) |-> "0"] \o s

\* str(v) of a float below 10^16: positional, with at least one fraction
\* digit, or exponent form below 10^-4
FloatStr(v) ==
    IF v.m # 0 /\ v.s > 4 /\ v.m < Pow10(v.s - 4)
    THEN LET d == NatDigits(v.m)
             mantissa == IF Len(d) = 1 THEN d ELSE <<d[1], ".">> \o Tail(d)
         IN  mantissa \o <<"e", "-">> \o ZeroPad(NatDigits(v.s - Len(d) + 1), 2)
    ELSE LET whole == NatDigits(v.m \div Pow10(v.s))
             fraction == IF v.s = 0 THEN <<"0">>
                         ELSE ZeroPad(NatDigits(v.m % Pow10(v.s)), v.s)
         IN  whole \o <<".">> \o fraction

----------------------------------------------------------------------------
(* Product containers and the sites' extract_product_info *)

\* the link of a container: none, or a relative or absolute href to a
\* product path
NoHref == [kind |-> "none", path |-> ""]

Hrefs ==
    {NoHref, [kind |-> "relative", path |-> "/p/1"],
     [kind |-> "absolute", path |-> "/p/1"],
     [kind |-> "absolute", path |-> "/p/2"]}

\* a URL: a path, with or without the site's scheme and host in front
Url(isAbsolute, path) == [absolute |-> isAbsolute, path |-> path]

\* the search page URL the extractor is called with (base_url, search_url)
SearchUrl == Url(TRUE, "/busca")

\* the texts of the price elements: a price, a zero price, words
PriceOk == <<"R", "$", " ", "1", "5", "0", ",", "0", "0">>
PriceZero == <<"R", "$", " ", "0", ",", "0", "0">>
PriceWords == <<"R", "$", " ", "-">>

\* the texts of the original-price elements (<<>>: no such element)
OrigHigher == <<"R", "$", " ", "2", "0", "0", ",", "0", "0">>
OrigLower == <<"R", "$", " ", "1", "0", "0", ",", "0", "0">>

\* the containers a document may hold: without a title; with a title and no
\* usable price; with a title and a price, any link, and either an image and
\* any original-price element or neither
Containers ==
    {[title |-> FALSE, href |-> NoHref, price |-> PriceOk, orig |-> <<>>,
      img |-> TRUE]}
    \cup {[title |-> TRUE, href |-> [kind |-> "absolute", path |-> "/p/1"],
           price |-> t, orig |-> <<>>, img |-> TRUE] :
            t \in {PriceZero, PriceWords}}
    \cup {[title |-> TRUE, href |-> h, price |-> PriceOk, orig |-> o,
           img |-> TRUE] : h \in Hrefs, o \in {<<>>, OrigHigher, OrigLower}}
    \cup {[title |-> TRUE, href |-> h, price |-> PriceOk, orig |-> <<>>,
           img |-> FALSE] : h \in Hrefs}

\* the documents: up to MaxContainers containers
Pages == UNION {[1..n -> Containers] : n \in 0..MaxContainers}

\* "R$" in text
HasCurrency(text) ==
    \E i \in 1..(Len(text) - 1) : text[i] = "R" /\ text[i + 1] = "$"

\* text.replace(".", "").isdigit()
DigitsAndPeriods(text) ==
    LET t == Remove(text, ".")
    IN  t # <<>> /\ \A i \in 1..Len(t) : IsDigit(t[i])

\* the test a price element's text passes before it is normalized
LooksLikePrice(site, text) ==
    CASE site \in {"amazon", "mercadolivre"} -> TRUE
      [] site = "carrefour" -> HasCurrency(text) \/ Contains(text, ",")
      [] site = "magazine_luiza" ->
             \/ HasCurrency(text)
             \/ (Contains(text, ",") /\ \E i \in 1..Len(text) : IsDigit(text[i]))
      [] OTHER ->
             /\ text # <<>>
             /\ (HasCurrency(text) \/ Contains(text, ",") \/ DigitsAndPeriods(text))

\* the price the cascade of the site resolves for a container
PriceOf(site, c) ==
    IF LooksLikePrice(site, c.price) THEN ExtractPrice(site, c.price) ELSE None

\* a container is skipped only when its cascade found no price element
NoPriceFoundIsNone(site, c) == PriceOf(site, c) = None

\* `if not price: continue`
NoPriceFound(site, c) == ~Truthy(PriceOf(site, c))

\* the sites whose extractor requires a link
LinkRequired == {"amazon", "mercadolivre"}

\* the link of a container as the extractor of the site resolves it: Mercado
\* Livre takes the href as it is, the others put the site's host in front of a
\* relative one
ResolvedUrl(site, c) ==
    IF site = "mercadolivre"
    THEN Url(c.href.kind = "absolute", c.href.path)
    ELSE Url(TRUE, c.href.path)

\* the sites whose extractor keeps a seen_urls set
Deduplicating == {"magazine_luiza", "pontofrio", "samsung", "lg"}

\* the sites whose extractor puts the search URL fallback into seen_urls too
DeduplicatingFallback == {"samsung", "lg"}

\* the url the record of a container carries
RecordUrl(site, c) ==
    IF c.href.kind = "none" THEN SearchUrl ELSE ResolvedUrl(site, c)

\* the url of a container is checked against seen_urls and added to it
TracksUrl(site, c) ==
    /\ site \in Deduplicating
    /\ c.href.kind # "none" \/ site \in DeduplicatingFallback

\* the sites whose extractor reads an original price and a discount
WithOriginalPrice == {"amazon", "mercadolivre", "pontofrio"}

\* the original price the extractor of the site keeps for a container whose
\* price is `price`
OriginalPriceOf(site, c, price) ==
    IF site \notin WithOriginalPrice \/ c.orig = <<>> THEN None
    ELSE IF site = "pontofrio"
    THEN IF /\ Truthy(ExtractPrice(site, c.orig))
            /\ Less(price, ExtractPrice(site, c.orig))
         THEN ExtractPrice(site, c.orig)
         ELSE None
    ELSE ExtractPrice(site, c.orig)

RECURSIVE Gcd(_, _)
Gcd(a, b) == IF b = 0 THEN a ELSE Gcd(b, a % b)

\* the float n / d, in lowest terms
Ratio(n, d) == [n |-> n \div Gcd(n, d), d |-> d \div Gcd(n, d)]

\* discount_percentage None
NoDiscount == [n |-> NoPrice, d |-> 1]

\* (original_price - price) / price * 100
PercentOverPrice(original_price, price) ==
    LET scale == IF original_price.s > price.s THEN original_price.s ELSE price.s
        o == original_price.m * Pow10(scale - original_price.s)
        p == price.m * Pow10(scale - price.s)
    IN  Ratio((o - p) * 100, p)

\* ((original_price - price) / original_price) * 100
Percent(original_price, price) ==
    LET scale == IF original_price.s > price.s THEN original_price.s ELSE price.s
        o == original_price.m * Pow10(scale - original_price.s)
        p == price.m * Pow10(scale - price.s)
    IN  Ratio((o - p) * 100, o)

\* discount_percentage of a record
DiscountOf(site, original_price, price) ==
    IF /\ site \in WithOriginalPrice
       /\ Truthy(original_price) /\ Truthy(price)
       /\ Less(price, original_price)
    THEN Percent(original_price, price)
    ELSE NoDiscount

\* ProductInfo(...) raises a validation error: url is not an absolute URL, or
\* image_url is the empty string (Ponto Frio passes "" when there is no image)
FailsValidation(site, c) ==
    \/ ~RecordUrl(site, c).absolute
    \/ site = "pontofrio" /\ ~c.img

\* the record built from container i of the document
Record(site, c, i) ==
    LET price == PriceOf(site, c)
        original_price == OriginalPriceOf(site, c, price)
    IN  [url |-> RecordUrl(site, c), price |-> price,
         original_price |-> original_price,
         discount_percentage |-> DiscountOf(site, original_price, price),
         container |-> i]

\* max_results of PontoFrioScraper.extract_product_info when the fetch
\* methods call it with two arguments
PontoFrioDefaultMax == 10

\* how many containers of the document the extractor looks at
ScanLimit(site, max_results, n) ==
    CASE site = "pontofrio" -> 2 * PontoFrioDefaultMax
      [] site \in {"samsung", "lg"} -> 3 * max_results
      [] site = "magazine_luiza" -> 50
      [] OTHER -> n

\* the number of records at which the extractor's loop stops (none: more
\* than the document holds)
RecordCap(site, max_results, n) ==
    CASE site = "pontofrio" -> PontoFrioDefaultMax
      [] site \in {"samsung", "lg"} -> max_results
      [] OTHER -> n + 1

RECURSIVE ExtractLoop(_, _, _, _, _, _)
\* the for loop of extract_product_info from container i on, with the
\* records built and the urls seen so far
ExtractLoop(site, containers, i, cap, records, seen_urls) ==
    IF i > Len(containers) \/ Len(records) >= cap THEN records
    ELSE LET c == containers[i]
             skipped == ExtractLoop(site, containers, i + 1, cap, records,
                                    seen_urls)
         IN  IF ~c.title THEN skipped
             ELSE IF c.href.kind = "none" /\ site \in LinkRequired THEN skipped
             ELSE IF NoPriceFound(site, c) THEN skipped
             ELSE IF TracksUrl(site, c) /\ RecordUrl(site, c) \in seen_urls
             THEN skipped
             ELSE LET seen == IF TracksUrl(site, c)
                              THEN seen_urls \cup {RecordUrl(site, c)}
                              ELSE seen_urls
                  IN  IF FailsValidation(site, c)
                      THEN ExtractLoop(site, containers, i + 1, cap, records,
                                       seen)
                      ELSE ExtractLoop(site, containers, i + 1, cap,
                                       Append(records, Record(site, c, i)),
                                       seen)

\* extract_product_info of the scraper of the site on a document
ExtractProductInfo(site, containers, max_results) ==
    ExtractLoop(site,
                Take(containers, ScanLimit(site, max_results, Len(containers))),
                1, RecordCap(site, max_results, Len(containers)), <<>>, {})

----------------------------------------------------------------------------
(* The state machine *)

\* no extractor or normalizer call is being followed
CallIdle ==
    /\ phase = "off"
    /\ site_in = ""
    /\ price_text = <<>>
    /\ price_out = None
    /\ price_again = None
    /\ page = <<>>
    /\ max_in = 0
    /\ extracted = <<>>
    /\ returned = <<>>

\* what scrape hands to its caller: a list, or an exception that escaped it
Handed(didRaise, prods) == [raised |-> didRaise, products |-> prods]

\* no call of scrape is being followed step by step
FetchIdle ==
    /\ driver = FALSE
    /\ browsers = 0
    /\ attempts = <<>>
    /\ all_products = <<>>
    /\ handed = Handed(FALSE, <<>>)

Requests ==
    [target_sites : UNION {[1..n -> Identifiers] : n \in 0..MaxSites},
     max_results_per_site : MaxResultsChoices]

Init ==
    /\ pc = "idle"
    /\ request \in Requests
    /\ products = <<>>
    /\ errors = <<>>
    /\ completed_sites = <<>>
    /\ result = EmptyResult
    /\ exc = ""
    /\ orig_sites = request.target_sites
    /\ trace = <<>>
    /\ failed_fetch = ""
    /\ appended = <<>>
    /\ added = 0
    /\ CallIdle
    /\ FetchIdle

\* execute_scraping up to graph.invoke: the initial ScrapingState
Start ==
    /\ pc = "idle"
    /\ products' = <<>>
    /\ errors' = <<>>
    /\ completed_sites' = <<>>
    /\ pc' = "coordinator"
    /\ UNCHANGED <<request, result, exc, orig_sites, trace, failed_fetch,
                   appended, added>>
    /\ UNCHANGED callVars
    /\ UNCHANGED fetchVars

\* the node the graph enters after `node` answered `key`, or "except" when
\* the lookup of the key raises out of graph.invoke
NextPc(node, key) ==
    IF Route(node, key) = "KeyError" THEN "except" ELSE Route(node, key)

NextExc(node, key) == IF Route(node, key) = "KeyError" THEN key ELSE ""

\* node "coordinator" (_coordinator_agent) and its conditional edge
Coordinator ==
    /\ pc = "coordinator"
    /\ LET expanded == ExpandAll(request.target_sites)
           available == AvailableSites(expanded)
           key == DecideScrapers(available)
       IN  /\ request' = [request EXCEPT !.target_sites = available]
           /\ errors' = errors \o UnsupportedErrors(expanded)
           /\ pc' = NextPc("coordinator", key)
           /\ exc' = NextExc("coordinator", key)
    /\ trace' = Append(trace, "coordinator")
    /\ UNCHANGED <<products, completed_sites, result, orig_sites,
                   failed_fetch, appended, added>>
    /\ UNCHANGED callVars
    /\ UNCHANGED fetchVars

\* what scraper.scrape(product_name, max_results) can hand back, by scraper
\* key and max_results
ScrapeOutcomes ==
    [site \in scrapers |->
        [max_results \in MaxResultsChoices |->
            {Scrape(site, plan, max_results) : plan \in FetchPlans(site)}]]

\* what the try block of a site node can end in: an exception raised outside
\* what scraper.scrape catches, or whatever scrape hands back
StageOutcomes(site, max_results) ==
    {Outcome(TRUE, <<>>, FALSE)} \cup ScrapeOutcomes[site][max_results]

\* a site node (_<site>_scraper_agent) and its conditional edge
SiteStage(node) ==
    /\ pc = node
    /\ \E out \in StageOutcomes(StageSite[node], request.max_results_per_site) :
         LET site == StageSite[node]
             completed == IF out.raised THEN completed_sites
                          ELSE Append(completed_sites, site)
             key == CheckRemainingScrapers(request.target_sites, completed)
         IN  /\ products' = IF out.raised THEN products
                            ELSE products \o out.products
             /\ appended' = IF out.raised THEN appended
                            ELSE appended \o out.products
             /\ completed_sites' = completed
             /\ errors' = IF out.raised
                          THEN Append(errors, ErrorEntry("scraping", site))
                          ELSE errors
             /\ failed_fetch' = IF out.failed THEN site ELSE ""
             /\ pc' = NextPc(node, key)
             /\ exc' = NextExc(node, key)
    /\ trace' = Append(trace, node)
    /\ UNCHANGED <<request, result, orig_sites, added>>
    /\ UNCHANGED callVars
    /\ UNCHANGED fetchVars

\* node "results_aggregator" (_results_aggregator_agent) and its edge to END
Aggregator ==
    /\ pc = "results_aggregator"
    /\ products' = SortByPrice(products)
    /\ trace' = Append(trace, "results_aggregator")
    /\ pc' = "END"
    /\ failed_fetch' = ""
    /\ UNCHANGED <<request, errors, completed_sites, result, exc, orig_sites,
                   appended, added>>
    /\ UNCHANGED callVars
    /\ UNCHANGED fetchVars

\* execute_scraping after graph.invoke returned
ReturnResult ==
    /\ pc = "END"
    /\ result' = FinalResult(request, products, errors)
    /\ pc' = "returned"
    /\ failed_fetch' = ""
    /\ UNCHANGED <<request, products, errors, completed_sites, exc, orig_sites,
                   trace, appended, added>>
    /\ UNCHANGED callVars
    /\ UNCHANGED fetchVars

\* execute_scraping's except branch
ReturnFailure ==
    /\ pc = "except"
    /\ result' = FailureResult(request, products, errors, exc)
    /\ pc' = "returned"
    /\ failed_fetch' = ""
    /\ UNCHANGED <<request, products, errors, completed_sites, exc, orig_sites,
                   trace, appended, added>>
    /\ UNCHANGED callVars
    /\ UNCHANGED fetchVars

\* the caller calls result.add_product on the returned result
AddProduct ==
    /\ pc = "returned"
    /\ added < MaxAdd
    /\ result' = AddProductTo(result, ExtraProduct)
    /\ added' = added + 1
    /\ UNCHANGED <<pc, request, products, errors, completed_sites, exc,
                   orig_sites, trace, failed_fetch, appended>>
    /\ UNCHANGED callVars
    /\ UNCHANGED fetchVars

Next ==
    \/ Start
    \/ Coordinator
    \/ \E node \in SiteNodes : SiteStage(node)
    \/ Aggregator
    \/ ReturnResult
    \/ ReturnFailure
    \/ AddProduct

Spec == Init /\ [][Next]_vars

----------------------------------------------------------------------------
(* Single calls of a price normalizer *)

\* no run of execute_scraping is being followed
RunOff ==
    /\ pc = "off"
    /\ request = NoRequest
    /\ products = <<>>
    /\ errors = <<>>
    /\ completed_sites = <<>>
    /\ result = EmptyResult
    /\ exc = ""
    /\ orig_sites = <<>>
    /\ trace = <<>>
    /\ failed_fetch = ""
    /\ appended = <<>>
    /\ added = 0

\* the characters of the price texts: digits, both separators, another one
PriceChars == {"0", "1", ",", ".", "$"}

PriceTexts == UNION {[1..n -> PriceChars] : n \in 0..MaxText}

InitPrice ==
    /\ RunOff
    /\ phase = "text"
    /\ site_in \in PriceSites
    /\ price_text \in PriceTexts
    /\ price_out = None
    /\ price_again = None
    /\ page = <<>>
    /\ max_in = 0
    /\ extracted = <<>>
    /\ returned = <<>>
    /\ FetchIdle

\* self._extract_price(price_text)
Normalize ==
    /\ phase = "text"
    /\ price_out' = ExtractPrice(site_in, price_text)
    /\ phase' = "normalized"
    /\ UNCHANGED <<site_in, price_text, price_again, page, max_in, extracted,
                   returned>>
    /\ UNCHANGED runVars
    /\ UNCHANGED fetchVars

\* self._extract_price(str(price_out)) on a value the normalizer returned
Renormalize ==
    /\ phase = "normalized"
    /\ price_out # None
    /\ price_again' = ExtractPrice(site_in, FloatStr(price_out))
    /\ phase' = "renormalized"
    /\ UNCHANGED <<site_in, price_text, price_out, page, max_in, extracted,
                   returned>>
    /\ UNCHANGED runVars
    /\ UNCHANGED fetchVars

NextPrice ==
    \/ Normalize
    \/ Renormalize

SpecPrice == InitPrice /\ [][NextPrice]_vars

----------------------------------------------------------------------------
(* Single calls of an extractor *)

\* the sites whose scraper defines extract_product_info
ExtractorSites == PriceSites

\* values of max_results a fetch method is called with
MaxResultsInputs == {1, 2}

InitExtract ==
    /\ RunOff
    /\ phase = "document"
    /\ site_in \in ExtractorSites
    /\ page \in Pages
    /\ max_in \in MaxResultsInputs
    /\ extracted = <<>>
    /\ returned = <<>>
    /\ price_text = <<>>
    /\ price_out = None
    /\ price_again = None
    /\ FetchIdle

\* self.extract_product_info(...) on the fetched document
Extract ==
    /\ phase = "document"
    /\ extracted' = ExtractProductInfo(site_in, page, max_in)
    /\ phase' = "extracted"
    /\ UNCHANGED <<site_in, page, max_in, returned, price_text, price_out,
                   price_again>>
    /\ UNCHANGED runVars
    /\ UNCHANGED fetchVars

\* return products[:max_results]
HandBack ==
    /\ phase = "extracted"
    /\ returned' = Take(extracted, max_in)
    /\ phase' = "returned"
    /\ UNCHANGED <<site_in, page, max_in, extracted, price_text, price_out,
                   price_again>>
    /\ UNCHANGED runVars
    /\ UNCHANGED fetchVars

NextExtract ==
    \/ Extract
    \/ HandBack

SpecExtract == InitExtract /\ [][NextExtract]_vars

----------------------------------------------------------------------------
(* Single calls of a scraper's scrape, one step of a fetch method at a time *)

\* the sites whose scraper class is defined next to BaseScraper
FetchSites == PriceSites

\* the scrapers that inherit scrape and scrape_with_selenium from BaseScraper
UsesBaseScrape(site) == site \notin {"carrefour", "samsung", "lg"}

\* a fetch attempt: its kind, the position of its URL in the scraper's list of
\* search URLs, how it failed ("none": it did not, "": it has not ended) and
\* the records its fetch method handed back
FetchAttempt(kind, url) ==
    [kind |-> kind, url |-> url, failure |-> "", got |-> <<>>]

\* the last attempt of the history, ended with a failure and records
Ended(history, failure, got) ==
    [history EXCEPT ![Len(history)].failure = failure,
                    ![Len(history)].got = got]

\* a rendered fetch method that catches the driver's exceptions only
SeleniumCatchesDriverErrors(failure) ==
    failure \in {"launch", "setup", "timeout", "webdriver_error"}

\* the except clauses of scrape_with_selenium and scrape_with_selenium_wait:
\* the last one is `except Exception`
SeleniumCatches(failure) == TRUE

\* BaseScraper.scrape going on to the static fetch whatever it has
FallsBackAlways(products_in) == TRUE

\* `if products: return products` of BaseScraper.scrape and the `if products:
\* ... else:` of CarrefourScraper.scrape: the static fetch is for an empty list
FallsBack(products_in) == products_in = <<>>

\* the loop of SamsungScraper.scrape without its break
StopsNever(products_in) == FALSE

\* `if products: ... break` of SamsungScraper.scrape
StopsAtFirstHit(products_in) == products_in # <<>>

InitFetch ==
    /\ RunOff
    /\ phase = "call"
    /\ site_in \in FetchSites
    /\ max_in \in MaxResultsInputs
    /\ returned = <<>>
    /\ price_text = <<>>
    /\ price_out = None
    /\ price_again = None
    /\ page = <<>>
    /\ extracted = <<>>
    /\ FetchIdle

\* the variables no step of scrape touches
fetchFrame ==
    <<pc, request, products, errors, completed_sites, result, exc, orig_sites,
      trace, failed_fetch, appended, added, site_in, max_in, price_text,
      price_out, price_again, page, extracted>>

\* scrape is called: LGScraper.scrape returns [] at once, the others start a
\* rendered fetch of their first search URL
EnterScrape ==
    /\ phase = "call"
    /\ IF site_in = "lg"
       THEN /\ handed' = Handed(FALSE, <<>>)
            /\ phase' = "returned"
            /\ UNCHANGED attempts
       ELSE /\ attempts' = <<FetchAttempt("selenium", 1)>>
            /\ phase' = "launch"
            /\ UNCHANGED handed
    /\ UNCHANGED <<returned, driver, browsers, all_products>>
    /\ UNCHANGED fetchFrame

\* an exception raised in the try block of the rendered fetch method: a caught
\* one makes the method return [], any other leaves it; the finally clause is
\* next either way
SeleniumRaises(failure) ==
    /\ attempts' = Ended(attempts, failure, <<>>)
    /\ returned' = <<>>
    /\ phase' = IF SeleniumCatches(failure) THEN "finally" ELSE "finally_raising"

\* driver = self._create_webdriver() / driver = webdriver.Chrome(...): the
\* browser does not start; or (_create_webdriver only) it starts and a set-up
\* command raises, which _create_webdriver re-raises with `driver` of the fetch
\* method still None; or the session is bound to `driver`
LaunchBrowser ==
    /\ phase = "launch"
    /\ \/ /\ SeleniumRaises("launch")
          /\ UNCHANGED <<driver, browsers>>
       \/ /\ UsesBaseScrape(site_in)
          /\ SeleniumRaises("setup")
          /\ browsers' = browsers + 1
          /\ UNCHANGED driver
       \/ /\ driver' = TRUE
          /\ browsers' = browsers + 1
          /\ phase' = "page"
          /\ UNCHANGED <<attempts, returned>>
    /\ UNCHANGED <<all_products, handed>>
    /\ UNCHANGED fetchFrame

\* driver.get(url), the readiness waits and driver.page_source
LoadPage ==
    /\ phase = "page"
    /\ \/ \E failure \in SeleniumFailures : SeleniumRaises(failure)
       \/ /\ phase' = "extract"
          /\ UNCHANGED <<attempts, returned>>
    /\ UNCHANGED <<driver, browsers, all_products, handed>>
    /\ UNCHANGED fetchFrame

\* products = self.extract_product_info(...) and the return of the rendered
\* fetch method: products[:max_results] in scrape_with_selenium, products in
\* scrape_with_selenium_wait
ExtractPage ==
    /\ phase = "extract"
    /\ \/ SeleniumRaises("extraction")
       \/ \E items \in Extractions :
            LET got == IF UsesBaseScrape(site_in)
                       THEN ScrapeWithSelenium(site_in, Attempt("none", items),
                                               max_in)
                       ELSE Records(site_in, items)
            IN  /\ attempts' = Ended(attempts, "none", got)
                /\ returned' = got
                /\ phase' = "finally"
    /\ UNCHANGED <<driver, browsers, all_products, handed>>
    /\ UNCHANGED fetchFrame

\* finally: if driver: driver.quit(); then the method returns, or the
\* exception it did not catch reaches scrape: BaseScraper.scrape returns [] in
\* its except clause, SamsungScraper.scrape goes on with the next URL,
\* CarrefourScraper.scrape has no try of its own
QuitDriver ==
    /\ phase \in {"finally", "finally_raising"}
    /\ browsers' = IF driver THEN browsers - 1 ELSE browsers
    /\ driver' = FALSE
    /\ IF phase = "finally" \/ site_in = "samsung"
       THEN /\ phase' = "fetched"
            /\ UNCHANGED handed
       ELSE /\ phase' = "returned"
            /\ handed' = Handed(~UsesBaseScrape(site_in), <<>>)
    /\ UNCHANGED <<returned, attempts, all_products>>
    /\ UNCHANGED fetchFrame

\* scrape after its rendered fetch returned: BaseScraper.scrape and
\* CarrefourScraper.scrape return what it gave or go on to the static fetch;
\* SamsungScraper.scrape keeps what it gave and stops, or tries the next URL,
\* or has no URL left
AfterSelenium ==
    /\ phase = "fetched"
    /\ IF site_in = "samsung"
       THEN LET kept == IF returned # <<>> THEN all_products \o returned
                        ELSE all_products
            IN  /\ all_products' = kept
                /\ IF StopsAtFirstHit(returned) \/ Len(attempts) = NumSamsungUrls
                   THEN /\ handed' = Handed(FALSE, Take(kept, max_in))
                        /\ phase' = "returned"
                        /\ UNCHANGED attempts
                   ELSE /\ attempts' =
                               Append(attempts,
                                      FetchAttempt("selenium", Len(attempts) + 1))
                        /\ phase' = "launch"
                        /\ UNCHANGED handed
       ELSE /\ IF FallsBack(returned)
               THEN /\ attempts' = Append(attempts, FetchAttempt("requests", 1))
                    /\ phase' = "requests"
                    /\ UNCHANGED handed
               ELSE /\ handed' = Handed(FALSE, Take(returned, max_in))
                    /\ phase' = "returned"
                    /\ UNCHANGED attempts
            /\ UNCHANGED all_products
    /\ UNCHANGED <<returned, driver, browsers>>
    /\ UNCHANGED fetchFrame

\* scrape_with_requests: session.get, raise_for_status, extract_product_info
\* and products[:max_results]; every exception is caught and gives []
RequestsFetch ==
    /\ phase = "requests"
    /\ \/ \E failure \in RequestsFailures \cup {"extraction"} :
            /\ attempts' = Ended(attempts, failure, <<>>)
            /\ returned' = <<>>
       \/ \E items \in Extractions :
            LET got == ScrapeWithRequests(site_in, Attempt("none", items),
                                          max_in)
            IN  /\ attempts' = Ended(attempts, "none", got)
                /\ returned' = got
    /\ phase' = "fetched_static"
    /\ UNCHANGED <<driver, browsers, all_products, handed>>
    /\ UNCHANGED fetchFrame

\* scrape returns what the static fetch gave (CarrefourScraper.scrape:
\* products[:max_results])
ReturnProducts ==
    /\ phase = "fetched_static"
    /\ handed' = Handed(FALSE, Take(returned, max_in))
    /\ phase' = "returned"
    /\ UNCHANGED <<returned, driver, browsers, attempts, all_products>>
    /\ UNCHANGED fetchFrame

NextFetch ==
    \/ EnterScrape
    \/ LaunchBrowser
    \/ LoadPage
    \/ ExtractPage
    \/ QuitDriver
    \/ AfterSelenium
    \/ RequestsFetch
    \/ ReturnProducts

SpecFetch == InitFetch /\ [][NextFetch]_vars

----------------------------------------------------------------------------
(* Vocabulary of the properties *)

\* the sites whose stage recorded a scraping error (its try block raised)
RaisedSites == {e.name : e \in {x \in Range(errors) : x.kind = "scraping"}}

\* execute_scraping has handed its result back and the caller has not touched it
JustReturned == pc = "returned" /\ added = 0

\* how many entries of the error list errs name `name`
ErrorsNaming(errs, name) ==
    Cardinality({i \in 1..Len(errs) : errs[i].name = name})

\* how many times x occurs in the sequence s
Occurrences(s, x) == Cardinality({i \in 1..Len(s) : s[i] = x})

\* the site stages entered so far, as scraper keys in order of entry
SiteTrace ==
    LET nodes == SelectSeq(trace, LAMBDA n : n \in SiteNodes)
    IN  [i \in 1..Len(nodes) |-> StageSite[nodes[i]]]

\* the fixed priority order of the site stages
PriorityOrder ==
    <<"amazon", "mercadolivre", "carrefour", "magazine_luiza", "americanas",
      "casas_bahia", "pontofrio", "samsung">>

\* the position of each site in the priority order
PriorityRank ==
    [site \in Range(PriorityOrder) |->
        CHOOSE i \in 1..Len(PriorityOrder) : PriorityOrder[i] = site]

PriorityIndex(site) == PriorityRank[site]

IsPrefix(s, t) == Len(s) <= Len(t) /\ s = SubSeq(t, 1, Len(s))

\* the supported sites a set of requested identifiers stands for
RequestedSet(ids) ==
    IF "all" \in ids THEN Range(AllSites)
    ELSE {Lower(id) : id \in ids} \cap supported_sites

\* the stage sequence of a request for the site set S: S in priority order,
\* headed by the Amazon stage whenever S holds more than one site
RunOrder(S) ==
    SelectSeq(PriorityOrder,
              LAMBDA s : s \in S \/ (s = "amazon" /\ Cardinality(S) > 1))

----------------------------------------------------------------------------
(* C1 - per-site isolation *)

\* C1: when exactly one site stage B raised and execute_scraping has returned,
\* the result holds every product the other stages appended and exactly one
\* error entry naming B.
C1_PerSiteIsolation ==
    (JustReturned /\ Cardinality(RaisedSites) = 1) =>
        \A b \in RaisedSites :
            /\ \A p \in Range(appended) :
                   Occurrences(result.products, p) = Occurrences(appended, p)
            /\ ErrorsNaming(result.errors, b) = 1

----------------------------------------------------------------------------
(* C2 - no graph node is entered twice *)

\* C2: in any run no node of the graph (the coordinator, a site stage, the
\* aggregator) is entered twice, whether stages succeed, return nothing or raise.
C2_NoNodeEnteredTwice ==
    \A i, j \in 1..Len(trace) : i # j => trace[i] # trace[j]

\* a finished run in which one stage raised, another returned nothing and a
\* third returned products
C2_Witness ==
    /\ pc = "returned"
    /\ RaisedSites # {}
    /\ Len(completed_sites) >= 2
    /\ Len(appended) = 1

----------------------------------------------------------------------------
(* C3 - every run ends in Done *)

\* C3: whenever execute_scraping has returned, the graph had reached its
\* terminal node: the last node entered is the aggregator (Aggregating -> Done),
\* whatever the site stages did.
C3_RunEndsInDone ==
    pc = "returned" =>
        (trace # <<>> /\ trace[Len(trace)] = "results_aggregator")

----------------------------------------------------------------------------
(* C4 - fixed stage order *)

\* C4: the site stages run in strictly increasing priority order, and the
\* sequence run is the one the set of requested sites determines (a prefix of
\* it while the run is under way or cut short, all of it once the graph ended),
\* so the order of the identifiers in the request plays no part.
C4_StageOrderFixed ==
    LET run == SiteTrace
        order == RunOrder(RequestedSet(Range(orig_sites)))
    IN  /\ \A i, j \in 1..Len(run) :
               i < j => PriorityIndex(run[i]) < PriorityIndex(run[j])
        /\ IsPrefix(run, order)
        /\ pc = "END" => run = order

\* a finished run of a request that names samsung before mercadolivre
C4_Witness ==
    /\ pc = "END"
    /\ orig_sites = <<"samsung", "mercadolivre">>
    /\ SiteTrace = <<"amazon", "mercadolivre", "samsung">>

----------------------------------------------------------------------------
(* C5 - unsupported identifiers *)

\* the requested identifiers outside the supported set (the "all" sentinel is
\* not one of them)
UnsupportedIds == {id \in Range(orig_sites) : Lower(id) \notin supported_sites /\ id # "all"}

\* C5: in the returned result every unsupported identifier of the request has
\* one error entry per time it was requested, no scraper stage ran for it, and
\* every supported identifier of the request had its stage run.
C5_UnsupportedSitesReported ==
    JustReturned =>
        /\ \A id \in UnsupportedIds :
               /\ Occurrences(result.errors, ErrorEntry("unsupported", id))
                      = Occurrences(orig_sites, id)
               /\ Lower(id) \notin Range(SiteTrace)
        /\ \A id \in Range(orig_sites) :
               Lower(id) \in supported_sites => Lower(id) \in Range(SiteTrace)

----------------------------------------------------------------------------
(* C6 - a failed fetch *)

\* the validated target sites whose stage is still to run (the Amazon stage is
\* entered from the coordinator only)
RemainingSites ==
    (Range(request.target_sites) \ Range(completed_sites)) \ {"amazon"}

\* C6 as claimed: right after the stage of a site whose every fetch attempt
\* failed, the site has contributed no product, the error list holds exactly
\* one entry naming the site, and the run goes on.
C6_FetchFailureRecorded ==
    failed_fetch # "" =>
        /\ \A p \in Range(products) : p.site # failed_fetch
        /\ ErrorsNaming(errors, failed_fetch) = 1
        /\ pc # "except"

\* C6 as amended: right after the stage of a site whose every fetch attempt
\* failed, the site has contributed no product, it is the last completed site,
\* the error list holds no entry naming it, and the run goes on with the next
\* remaining site (or with the aggregator when none remains).
C6_FetchFailureSilent ==
    failed_fetch # "" =>
        /\ \A p \in Range(products) : p.site # failed_fetch
        /\ completed_sites # <<>>
        /\ completed_sites[Len(completed_sites)] = failed_fetch
        /\ ErrorsNaming(errors, failed_fetch) = 0
        /\ pc \in SiteNodes \cup {"results_aggregator"}
        /\ pc \in SiteNodes => StageSite[pc] \in RemainingSites
        /\ pc = "results_aggregator" => RemainingSites = {}

\* the fetches of the Amazon stage all failed and the Mercado Livre stage is next
C6_Witness ==
    /\ failed_fetch = "amazon"
    /\ pc = "mercadolivre_scraper"
    /\ completed_sites = <<"amazon">>

----------------------------------------------------------------------------
(* C7 - an exception escaping the graph *)

\* C7: when an exception escaped graph.invoke, the returned result has no
\* products, total_found 0 and exactly one error entry, which describes the
\* failure.
C7_OrchestrationFailureResult ==
    (JustReturned /\ exc # "") =>
        /\ result.products = <<>>
        /\ result.total_found = 0
        /\ result.errors = <<ErrorEntry("orchestration", exc)>>

\* a run that had accumulated a product and two errors when the exception escaped
C7_Witness ==
    /\ JustReturned
    /\ exc # ""
    /\ products # <<>>
    /\ Len(errors) >= 2

----------------------------------------------------------------------------
(* C8 - the result is sorted by price *)

HasPrice(p) == p.price # NoPrice

----------------------------------------------------------------------------
(* C9 - what decides the order of the result *)

\* the sequences that hold the elements of s in some order
Reorderings(s) ==
    {[i \in 1..Len(s) |-> s[f[i]]] : f \in Permutations(1..Len(s))}

\* the products of s that have the sort key k, in their order in s
WithKey(s, k) == SelectSeq(s, LAMBDA p : PriceKey(p) = k)

\* C9 as claimed: the result of a completed run is the same product sequence
\* in whatever order the same products were accumulated.
C9_OrderDeterminedByPricesOnly ==
    (JustReturned /\ exc = "") =>
        \A q \in Reorderings(appended) : SortByPrice(q) = result.products

\* C9 as amended: the result of a completed run holds the accumulated products
\* in ascending order of the sort key, and the products that share a key are in
\* the order in which the stages appended them; so the prices of the result are
\* decided by the accumulated prices alone, the order among equal prices by the
\* order of accumulation.
C9_StableSortOfAccumulation ==
    (JustReturned /\ exc = "") =>
        /\ Len(result.products) = Len(appended)
        /\ \A i, j \in 1..Len(result.products) :
               i < j => KeyLessEq(PriceKey(result.products[i]),
                                  PriceKey(result.products[j]))
        /\ \A p \in Range(appended) :
               WithKey(result.products, PriceKey(p)) = WithKey(appended, PriceKey(p))

\* a completed run with two products of one price from different sites and a
\* cheaper product appended after them
C9_Witness ==
    /\ JustReturned
    /\ exc = ""
    /\ \E i, j, k \in 1..Len(appended) :
           /\ i < j /\ j < k
           /\ appended[i].price = appended[j].price
           /\ appended[i].site # appended[j].site
           /\ appended[k].price < appended[i].price

----------------------------------------------------------------------------
(* C10 - total_found *)

\* C10: in every result execute_scraping returned, and after every add_product
\* call on it, total_found is the length of the product list.
C10_TotalFoundIsLength ==
    pc = "returned" => result.total_found = Len(result.products)

\* a returned result of two products to which the caller added a third
C10_Witness ==
    /\ pc = "returned"
    /\ added = 1
    /\ Len(result.products) = 3
    /\ result.total_found = 3

----------------------------------------------------------------------------
(* C11 - a stage's contribution is capped *)

\* the site stages that ran to their end (each appended itself to
\* completed_sites) or raised
StagesRun == Len(SiteTrace)

\* a step taken from a site stage lengthens the accumulated list by at most
\* max_results_per_site
StageAddsAtMostMax ==
    (pc \in SiteNodes) =>
        (Len(products') <= Len(products) + request.max_results_per_site)

\* C11: a step of a site stage adds at most max_results_per_site products to
\* the accumulated list, whatever the fetched documents hold, and the result
\* execute_scraping returns holds at most max_results_per_site products per
\* site stage run.
C11_StageContributionCapped ==
    /\ [][StageAddsAtMostMax]_vars
    /\ [](JustReturned =>
            Len(result.products) <= request.max_results_per_site * StagesRun)

\* a returned result in which each of two stages contributed its full share
C11_Witness ==
    /\ JustReturned
    /\ exc = ""
    /\ StagesRun = 2
    /\ Len(result.products) = request.max_results_per_site * StagesRun

----------------------------------------------------------------------------
(* C15 - the price normalizers against the stated algorithm *)

\* how many times c occurs in the text s
CountChar(s, c) == Cardinality({i \in 1..Len(s) : s[i] = c})

\* the value the stated algorithm gives for a text: other characters are
\* stripped; with both separators the later one is the decimal separator and
\* the earlier one is removed; a lone comma is the decimal separator; a lone
\* period is a thousands separator exactly when more than 2 digits follow it
StatedValue(text) ==
    LET c == Cleaned(text)
    IN  IF Contains(c, ",") /\ Contains(c, ".")
        THEN IF RFind(c, ".") > RFind(c, ",")
             THEN Float(Remove(c, ","))
             ELSE Float(Replace(Remove(c, "."), ",", "."))
        ELSE IF Contains(c, ",") THEN Float(Replace(c, ",", "."))
        ELSE IF Contains(c, ".") /\ Len(c) - RFind(c, ".") > 2
        THEN Float(Remove(c, "."))
        ELSE Float(c)

\* 'R$ 1.234,56' gives 1234.56, '1234,56' gives 1234.56, '1.234' gives 1234.0
\* and 'R$ 0,01' gives 0.01
StatedExamples ==
    {[text |-> <<"R", "$", " ", "1", ".", "2", "3", "4", ",", "5", "6">>,
      value |-> Decimal(123456, 2)],
     [text |-> <<"1", "2", "3", "4", ",", "5", "6">>,
      value |-> Decimal(123456, 2)],
     [text |-> <<"1", ".", "2", "3", "4">>, value |-> Decimal(1234, 0)],
     [text |-> <<"R", "$", " ", "0", ",", "0", "1">>, value |-> Decimal(1, 2)]}

\* C15: for every price text with at most one comma and at most one period
\* for which the stated algorithm gives a positive value, the site's
\* normalizer returns that value; and it returns the stated value for each of
\* the four named texts.
C15_NormalizerFollowsAlgorithm ==
    phase = "normalized" =>
        /\ (/\ CountChar(price_text, ",") <= 1
            /\ CountChar(price_text, ".") <= 1
            /\ Truthy(StatedValue(price_text)))
               => price_out = StatedValue(price_text)
        /\ \A ex \in StatedExamples : ExtractPrice(site_in, ex.text) = ex.value

----------------------------------------------------------------------------
(* C16 - idempotence of the price normalizers *)

\* C16: normalizing the string form of a value a site's normalizer returned
\* gives that value again.
C16_NormalizerIdempotent ==
    phase = "renormalized" => price_again = price_out

----------------------------------------------------------------------------
(* C12 - URLs of one extraction pass *)

\* the extractor has returned
Extracted == phase \in {"extracted", "returned"}

\* C12: the records one extraction pass returns have pairwise distinct URLs.
C12_RecordUrlsDistinct ==
    Extracted =>
        \A i, j \in 1..Len(extracted) :
            i # j => extracted[i].url # extracted[j].url

----------------------------------------------------------------------------
(* C13 - emitted prices *)

\* C13: every record an extractor returns has a price that is present and
\* strictly positive, and no record comes from a container whose price
\* cascade resolves to nothing or to zero.
C13_RecordPricePositive ==
    Extracted =>
        \A i \in 1..Len(extracted) :
            /\ extracted[i].price # None
            /\ extracted[i].price.m > 0
            /\ Truthy(ExtractPrice(site_in, page[extracted[i].container].price))

\* a document whose first container has a title and a zero price and whose
\* second container yields the only record
C13_Witness ==
    /\ phase = "extracted"
    /\ Len(page) = 2
    /\ page[1].title /\ page[1].price = PriceZero
    /\ Len(extracted) = 1
    /\ extracted[1].container = 2
    /\ extracted[1].price = Decimal(150, 0)

----------------------------------------------------------------------------
(* C14 - discount_percentage *)

\* the record r has a discount that equals (original - price) / original * 100
DiscountIsPercentOfOriginal(r) ==
    LET scale == IF r.original_price.s > r.price.s
                 THEN r.original_price.s ELSE r.price.s
        o == r.original_price.m * Pow10(scale - r.original_price.s)
        p == r.price.m * Pow10(scale - r.price.s)
    IN  r.discount_percentage.n * o = (o - p) * 100 * r.discount_percentage.d

\* C14: in every record an extractor returns, discount_percentage is present
\* exactly when an original price is present and strictly greater than the
\* price, and it then equals (original_price - price) / original_price * 100;
\* original 200 with price 150 gives 25, original 100 with price 150 gives none.
C14_DiscountFromOriginalPrice ==
    Extracted =>
        \A i \in 1..Len(extracted) :
            LET r == extracted[i]
            IN  /\ (r.discount_percentage # NoDiscount) <=>
                       (r.original_price # None
                        /\ Less(r.price, r.original_price))
                /\ r.discount_percentage # NoDiscount =>
                       DiscountIsPercentOfOriginal(r)
                /\ (r.original_price = Decimal(200, 0)
                    /\ r.price = Decimal(150, 0))
                       => r.discount_percentage = Ratio(25, 1)
                /\ (r.original_price = Decimal(100, 0)
                    /\ r.price = Decimal(150, 0))
                       => r.discount_percentage = NoDiscount

\* one pass that returned a record of price 150 with original price 200 and
\* a record of price 150 with original price 100
C14_Witness ==
    /\ phase = "extracted"
    /\ \E i, j \in 1..Len(extracted) :
           /\ extracted[i].price = Decimal(150, 0)
           /\ extracted[i].original_price = Decimal(200, 0)
           /\ extracted[i].discount_percentage = Ratio(25, 1)
           /\ extracted[j].price = Decimal(150, 0)
           /\ extracted[j].original_price = Decimal(100, 0)
           /\ extracted[j].discount_percentage = NoDiscount

----------------------------------------------------------------------------
(* C17 - the "all" sentinel *)

\* the coordinator has validated the request
Validated == \E i \in 1..Len(trace) : trace[i] = "coordinator"

\* C17: for a request naming "all", the command line and the coordinator
\* expand it to the same set, the general sites amazon, mercadolivre,
\* carrefour and magazine_luiza, and a finished run ran exactly their stages.
C17_AllExpandsToGeneralSites ==
    (Validated /\ "all" \in Range(orig_sites)) =>
        /\ Range(MainTargetSites(orig_sites))
               = {"amazon", "mercadolivre", "carrefour", "magazine_luiza"}
        /\ Range(request.target_sites) = Range(MainTargetSites(orig_sites))
        /\ (JustReturned /\ exc = "") =>
               Range(SiteTrace) = Range(MainTargetSites(orig_sites))

----------------------------------------------------------------------------
(* C18 - documented and registered sites *)

\* the scraper key a documented identifier stands for
SiteKey(id) == IF id = "ponto_frio" THEN "pontofrio" ELSE id

\* C18: a request naming one identifier that the command line documents or
\* that has a registered scraper records no unsupported-site error, and once
\* the graph has ended that site's stage has run exactly once.
C18_DocumentedSitesAccepted ==
    (/\ Validated
     /\ Len(orig_sites) = 1
     /\ orig_sites[1] \in MainDocumentedSites \cup scrapers) =>
        /\ \A i \in 1..Len(errors) : errors[i].kind # "unsupported"
        /\ pc \in {"END", "except", "returned"} =>
               Occurrences(SiteTrace, SiteKey(orig_sites[1])) = 1

----------------------------------------------------------------------------
(* C19 - letter case of the identifiers *)

\* the identifiers of a request in lower case
LowerAll(ids) == [i \in 1..Len(ids) |-> Lower(ids[i])]

\* the unsupported-site entries of an error list, names in lower case
UnsupportedNames(errs) ==
    LET bad == SelectSeq(errs, LAMBDA e : e.kind = "unsupported")
    IN  [i \in 1..Len(bad) |-> Lower(bad[i].name)]

\* C19: the coordinator leaves the worklist and the unsupported-site errors
\* that it leaves for the same request written in lower case (the stages run
\* and the later errors are a function of the worklist and of what the
\* stages meet).
C19_IdentifiersCaseInsensitive ==
    (Validated /\ pc # "returned") =>
        /\ request.target_sites
               = AvailableSites(ExpandAll(LowerAll(orig_sites)))
        /\ UnsupportedNames(errors)
               = UnsupportedNames(UnsupportedErrors(ExpandAll(LowerAll(orig_sites))))

----------------------------------------------------------------------------
(* C20 - only requested sites are scraped *)

\* C20: every site stage entered belongs to a site of the validated worklist,
\* and so does every completed-site entry and every accumulated product.
C20_OnlyWorklistSitesRun ==
    Validated =>
        /\ Range(SiteTrace) \subseteq Range(request.target_sites)
        /\ Range(completed_sites) \subseteq Range(request.target_sites)
        /\ \A i \in 1..Len(products) :
               products[i].site \in Range(request.target_sites)

----------------------------------------------------------------------------
(* C21 - the aggregator is entered once the worklist is empty *)

\* C21: when no site stage raised and the graph is about to enter the
\* aggregator, every site of the validated target list has had its stage run
\* and is in completed_sites.
C21_AggregatorAfterWorklist ==
    (pc = "results_aggregator" /\ RaisedSites = {}) =>
        /\ Range(request.target_sites) \subseteq Range(SiteTrace)
        /\ Range(request.target_sites) \subseteq Range(completed_sites)

\* the aggregator is next after the stages of a worklist of two sites, the
\* second of which is the last of the priority order
C21_Witness ==
    /\ pc = "results_aggregator"
    /\ RaisedSites = {}
    /\ request.target_sites = <<"samsung", "mercadolivre">>
    /\ completed_sites = <<"amazon", "mercadolivre", "samsung">>

----------------------------------------------------------------------------
(* C22 - browser sessions *)

\* the fetch method that launched a browser has returned or been left
OutsideRenderedFetch ==
    phase \in {"call", "fetched", "requests", "fetched_static", "returned"}

\* C22: at most one browser session is alive at any time of a call of scrape,
\* and none is alive once the fetch method that launched it has returned or
\* been left, on whichever path (success, timeout, driver error, failure of
\* the driver set-up after the browser was started).
C22_BrowserSessionsQuit ==
    /\ browsers <= 1
    /\ OutsideRenderedFetch => browsers = 0

----------------------------------------------------------------------------
(* C23 - the static fetch is the fallback of the rendered fetch *)

\* the sites whose scrape is BaseScraper.scrape or CarrefourScraper.scrape
FallbackSites == FetchSites \ {"samsung", "lg"}

\* the attempts of one kind made so far
AttemptsOf(kind) == SelectSeq(attempts, LAMBDA a : a.kind = kind)

\* C23: a call of BaseScraper.scrape or CarrefourScraper.scrape makes at most
\* one rendered and at most one static fetch attempt; a static attempt is made
\* only after the rendered attempt ended with a failure or with no record,
\* and by the time scrape returns it has been made exactly in that case.
C23_StaticFetchOnlyAsFallback ==
    site_in \in FallbackSites =>
        /\ Len(AttemptsOf("selenium")) <= 1
        /\ Len(AttemptsOf("requests")) <= 1
        /\ AttemptsOf("requests") # <<>> =>
               /\ attempts[1].kind = "selenium"
               /\ attempts[1].failure # ""
               /\ attempts[1].got = <<>>
        /\ phase = "returned" =>
               (AttemptsOf("requests") # <<>> <=> attempts[1].got = <<>>)

\* CarrefourScraper.scrape returned the records of its static fetch after a
\* rendered fetch that loaded the page and found no record
C23_Witness ==
    /\ phase = "returned"
    /\ site_in = "carrefour"
    /\ Len(attempts) = 2
    /\ attempts[1].kind = "selenium" /\ attempts[1].failure = "none"
    /\ attempts[2].kind = "requests" /\ attempts[2].got # <<>>
    /\ handed = Handed(FALSE, attempts[2].got)

----------------------------------------------------------------------------
(* C24 - no exception escapes scrape *)

\* every fetch attempt of the call ended in a failure
AllAttemptsFailed ==
    \A i \in 1..Len(attempts) : attempts[i].failure \notin {"", "none"}

\* C24: when scrape has returned it has handed a list to its caller, not an
\* exception, whichever of the browser launch, the driver set-up, the page
\* load, the readiness wait, the HTTP request or the extraction failed; the
\* list is empty when every fetch attempt failed.
C24_ScrapeReturnsList ==
    phase = "returned" =>
        /\ ~handed.raised
        /\ AllAttemptsFailed => handed.products = <<>>

\* CarrefourScraper.scrape returned [] after an extraction failure in its
\* rendered fetch and a request failure in its static fetch
C24_Witness ==
    /\ phase = "returned"
    /\ site_in = "carrefour"
    /\ Len(attempts) = 2
    /\ attempts[1].failure = "extraction"
    /\ attempts[2].failure = "request_error"
    /\ handed = Handed(FALSE, <<>>)

----------------------------------------------------------------------------
(* C25 - the candidate URLs of SamsungScraper.scrape *)

\* C25: SamsungScraper.scrape fetches its candidate URLs in the order of its
\* list, each with a rendered fetch; every URL before the one being fetched
\* failed or gave no record, so no URL is fetched after one that gave a
\* record; and it returns the records of the last URL fetched, cut to
\* max_results: those of the first URL that gave any, or nothing once every
\* URL of the list has been tried.
C25_SamsungFirstHitOnly ==
    site_in = "samsung" =>
        /\ Len(attempts) <= NumSamsungUrls
        /\ \A i \in 1..Len(attempts) :
               /\ attempts[i].kind = "selenium"
               /\ attempts[i].url = i
               /\ i < Len(attempts) => attempts[i].got = <<>>
        /\ phase = "returned" =>
               LET last == attempts[Len(attempts)]
               IN  /\ handed = Handed(FALSE, Take(last.got, max_in))
                   /\ last.got = <<>> => Len(attempts) = NumSamsungUrls

\* SamsungScraper.scrape returned the records of its third URL after a
\* timeout on the first and a page without records on the second
C25_Witness ==
    /\ phase = "returned"
    /\ site_in = "samsung"
    /\ Len(attempts) = 3
    /\ attempts[1].failure = "timeout"
    /\ attempts[2].failure = "none" /\ attempts[2].got = <<>>
    /\ Len(attempts[3].got) > max_in
    /\ handed = Handed(FALSE, Take(attempts[3].got, max_in))

----------------------------------------------------------------------------
(* C26 - an exception in one container *)

\* the container passes the name, link and price checks of the site's loop
PassesChecks(site, c) ==
    /\ c.title
    /\ c.href.kind # "none" \/ site \notin LinkRequired
    /\ ~NoPriceFound(site, c)

\* an earlier container of the document put the url of container k into
\* seen_urls
SeenBefore(site, containers, k) ==
    /\ TracksUrl(site, containers[k])
    /\ \E j \in 1..(k - 1) :
           /\ PassesChecks(site, containers[j])
           /\ TracksUrl(site, containers[j])
           /\ RecordUrl(site, containers[j]) = RecordUrl(site, containers[k])

\* processing container k of the document raises: it reaches ProductInfo(...)
\* and fails validation
RaisesAt(site, containers, k) ==
    /\ PassesChecks(site, containers[k])
    /\ ~SeenBefore(site, containers, k)
    /\ FailsValidation(site, containers[k])

\* the document without its container k
Without(containers, k) ==
    SubSeq(containers, 1, k - 1) \o SubSeq(containers, k + 1, Len(containers))

\* the fields of the records, in order
Contents(records) ==
    [i \in 1..Len(records) |->
        [url |-> records[i].url, price |-> records[i].price,
         original_price |-> records[i].original_price,
         discount_percentage |-> records[i].discount_percentage]]

\* C26: when processing a container of the document raised, the records the
\* extractor returned are those it returns for the document without that
\* container.
C26_FailingContainerAloneSkipped ==
    Extracted =>
        \A k \in 1..Len(page) :
            RaisesAt(site_in, page, k) =>
                Contents(extracted)
                    = Contents(ExtractProductInfo(site_in, Without(page, k),
                                                  max_in))

----------------------------------------------------------------------------
(* C27 - a valid container yields a record *)

\* the records that come from containers in front of container k
RecordsBefore(k) ==
    Cardinality({i \in 1..Len(extracted) : extracted[i].container < k})

\* container k has a name and a resolvable price, its url is that of no
\* earlier container, and the extractor's limits leave room for it
ValidAndNew(k) ==
    /\ page[k].title
    /\ Truthy(PriceOf(site_in, page[k]))
    /\ \A j \in 1..(k - 1) :
           RecordUrl(site_in, page[j]) # RecordUrl(site_in, page[k])
    /\ k <= ScanLimit(site_in, max_in, Len(page))
    /\ RecordsBefore(k) < RecordCap(site_in, max_in, Len(page))

\* C27: every container with a name and a resolvable price whose url is not
\* a duplicate has a record among those returned, whether or not it has a
\* link, an image or an original price; without a link its record carries
\* the search page URL.
C27_ValidContainerYieldsRecord ==
    Extracted =>
        \A k \in 1..Len(page) :
            ValidAndNew(k) =>
                \E i \in 1..Len(extracted) :
                    /\ extracted[i].container = k
                    /\ page[k].href.kind = "none" =>
                           extracted[i].url = SearchUrl

----------------------------------------------------------------------------
(* C28 - original_price against price *)

\* C28: in every record an extractor returns, original_price is absent or
\* strictly greater than price.
C28_OriginalPriceAbovePrice ==
    Extracted =>
        \A i \in 1..Len(extracted) :
            extracted[i].original_price # None =>
                Less(extracted[i].price, extracted[i].original_price)

----------------------------------------------------------------------------
(* C29 - the accumulators only grow *)

\* s and t hold the same elements the same number of times
SameMultiset(s, t) ==
    /\ Len(s) = Len(t)
    /\ \A x \in Range(s) \cup Range(t) : Occurrences(s, x) = Occurrences(t, x)

\* a step of execute_scraping, of the coordinator, of a site stage or of a
\* routing function keeps every entry of both accumulators in place and
\* appends at their end; the aggregator's step keeps the errors and reorders
\* the products
AccumulatorsGrow ==
    IF pc = "results_aggregator"
    THEN SameMultiset(products, products') /\ errors' = errors
    ELSE IsPrefix(products, products') /\ IsPrefix(errors, errors')

----------------------------------------------------------------------------
(* C30 - the caller's request *)

\* C30: when execute_scraping has returned, the caller's request and the
\* request of the result list the target sites as the caller supplied them,
\* unsupported identifiers included.
C30_RequestUnchanged ==
    pc = "returned" =>
        /\ request.target_sites = orig_sites
        /\ result.request.target_sites = orig_sites

====
